---- MODULE Spec2Model ----
(***************************************************************************)
(* A state-machine model of the wikilinks graph exploration application:   *)
(* the App of src/src/app.rs (state machine, fetch polling, graph and      *)
(* simulation mirror, selection) and the Cursor of src/src/cursor.rs.      *)
(*                                                                         *)
(* One frame of App::update is the sequence handle_state; draw;            *)
(* handle_keys; sync_graph_with_simulation; update_simulation.  The        *)
(* variable pc holds the position inside the frame.  The retrieval workers *)
(* run on other threads and interleave with every step of the frame.       *)
(***************************************************************************)
EXTENDS Integers, Sequences, FiniteSets, TLC

\* ------------------------------------------------------------------ bounds
\* number of distinct links the workers can discover / the user can type
NumLinks == 3
\* outcomes the workers of one run send, all workers together
MaxSend == 2
\* fetch tasks created in one run (create_new_task calls)
MaxTasks == 3
\* node-select events waiting in the changes channel
MaxChanges == 1
\* keys pressed within one frame
MaxKeys == 1
\* edges of a simulation graph given to update_simulation
MaxSimEdges == 3
\* nodes whose locations LayoutSpec follows
LayoutNodes == 2
\* the coordinates of a location are 0..MaxCoord
MaxCoord == 1

VARIABLES
    state,              \* App.state
    pc,                 \* position inside App::update
    root_article_url,   \* App.root_article_url (the text of the input field)
    g_nodes,            \* App.g: node weights, NodeIndex i is g_nodes[i + 1]
    g_edges,            \* App.g: edges <<start, end>> in insertion order
    sim_nodes,          \* App.sim: names of the simulation nodes, index i at [i + 1]
    sim_edges,          \* App.sim: edges by edge slot
    node_by_url,        \* App.node_by_url
    active_tasks,       \* App.active_tasks: NodeIndex -> (channel, worker)
    selected_node,      \* App.selected_node (None is -1)
    cursor,             \* App.cursor
    changes,            \* App.changes_sender / changes_receiver: queued events
    halt,               \* "none", or how the process stopped: "panic" / "hang"
    poll_todo,          \* process_active_tasks: records the for_each has not visited
    poll_cur,           \* process_active_tasks: record whose try_recv returned Err
    finished_tasks,     \* process_active_tasks: local finished_tasks
    tasks_started,      \* number of create_new_task calls so far
    outcomes_sent,      \* number of outcomes the workers have sent so far
    g_layout,           \* App.g: location and dragged flag of the nodes (LayoutSpec)
    sim_location        \* App.sim: location of the simulation points (LayoutSpec)

vars == <<state, pc, root_article_url, g_nodes, g_edges, sim_nodes, sim_edges,
          node_by_url, active_tasks, selected_node, cursor, changes, halt,
          poll_todo, poll_cur, finished_tasks, tasks_started, outcomes_sent,
          g_layout, sim_location>>

\* The locations do not influence any other field of the App.  Spec leaves
\* them out (both layouts stay empty); LayoutSpec follows them on their own.
layout_vars == <<g_layout, sim_location>>

\* ---------------------------------------------------------------- helpers
None == 0 - 1

Put(f, k, v) == [x \in (DOMAIN f) \cup {k} |-> IF x = k THEN v ELSE f[x]]

Drop(f, ks) == [x \in (DOMAIN f) \ ks |-> f[x]]

Min(S) == CHOOSE x \in S : \A y \in S : x <= y

Reverse(s) == [i \in 1..Len(s) |-> s[Len(s) + 1 - i]]

\* ------------------------------------------------------------------- urls
\* Link texts are abstracted to tokens: 0 is a text that does not parse, the
\* links are 1..NumLinks and NumLinks + 1 parses but has no host.
Links == 1..NumLinks

NoHostText == NumLinks + 1

Texts == 0..NoHostText

\* Url::new: Ok unless url::Url::parse fails
UrlParses(t) == t # 0

\* Url::url_type, by the link's class: wikipedia articles, a wikipedia file
\* page and an external page that is neither a file nor an external article
url_type(l) ==
    CASE l % 4 = 1 -> "Article"
      [] l % 4 = 2 -> "File"
      [] l % 4 = 3 -> "Other"
      [] OTHER -> "Article"

\* Url::is_wiki: host_str().unwrap().contains("wikipedia.org"); the links of
\* class Article and File are wikipedia links, those of class Other are not
is_wiki(l) == l % 4 # 3

\* ------------------------------------------------------------ state.rs
\* state::next(state, fork)
next(s, fork) ==
    CASE s = "Input" /\ fork = "Success" -> "GraphAndLoading"
      [] s = "Input" /\ fork = "Failure" -> "InputError"
      [] s = "InputError" /\ fork = "Success" -> "Input"
      [] s = "GraphAndLoading" /\ fork = "Success" -> "GraphLoaded"
      [] s = "GraphAndLoading" /\ fork = "Failure" -> "GraphAndLoadingError"
      [] s = "GraphLoaded" /\ fork = "Success" -> "Graph"
      [] OTHER -> s

\* ------------------------------------------------------------ graph
NodeIndices(nodes) == 0..(Len(nodes) - 1)

\* node::Node::new wrapped by egui_graphs::Node::new: not selected
NewNode(url) == [url |-> url, selected |-> FALSE]

\* petgraph neighbors_directed(a, Outgoing): the targets of a's outgoing
\* edges, most recently added edge first
RECURSIVE neighbors_outgoing(_, _)
neighbors_outgoing(edges, a) ==
    IF edges = <<>> THEN <<>>
    ELSE LET n == Len(edges)
             rest == neighbors_outgoing(SubSeq(edges, 1, n - 1), a)
         IN IF edges[n][1] = a THEN <<edges[n][2]>> \o rest ELSE rest

\* petgraph neighbors_directed(a, Incoming): the sources of a's incoming
\* edges, most recently added edge first
RECURSIVE neighbors_incoming(_, _)
neighbors_incoming(edges, a) ==
    IF edges = <<>> THEN <<>>
    ELSE LET n == Len(edges)
             rest == neighbors_incoming(SubSeq(edges, 1, n - 1), a)
         IN IF edges[n][2] = a THEN <<edges[n][1]>> \o rest ELSE rest

\* Vec::sort
RECURSIVE sort(_)
sort(s) ==
    IF s = <<>> THEN <<>>
    ELSE LET m == Min({s[i] : i \in 1..Len(s)})
             k == Min({i \in 1..Len(s) : s[i] = m})
         IN <<m>> \o sort(SubSeq(s, 1, k - 1) \o SubSeq(s, k + 1, Len(s)))

\* Vec::dedup: removes consecutive repeated elements
RECURSIVE dedup(_)
dedup(s) ==
    IF Len(s) <= 1 THEN s
    ELSE LET rest == dedup(Tail(s))
         IN IF s[1] = rest[1] THEN rest ELSE <<s[1]>> \o rest

\* the children alone: the push of the root itself left out
get_children_unique_sorted(root, edges) ==
    dedup(sort(neighbors_outgoing(edges, root)))

get_children_unique_inclusive_sorted(root, edges) ==
    dedup(sort(Append(neighbors_outgoing(edges, root), root)))

\* ------------------------------------------------------------ cursor.rs
\* Option<Cursor>::None (App.cursor's default)
NoCursor ==
    [some |-> FALSE,
     elements_by_root |-> <<>>,
     roots_by_element |-> <<>>,
     roots_tree |-> [nodes |-> <<>>, edges |-> <<>>],
     position |-> <<None, None>>]

\* roots_tree.node_indices().find(|i| w == *roots_tree.node_weight(*i)):
\* the first tree index whose weight is w, None when there is none
find_root_idx(tree, w) ==
    LET hits == {i \in 0..(Len(tree.nodes) - 1) : tree.nodes[i + 1] = w}
    IN IF hits = {} THEN None ELSE Min(hits)

\* Cursor::add_root_to_tree adding the tree node without its edge
add_root_to_tree_no_edge(tree, position, root) ==
    [tree |-> [tree EXCEPT !.nodes = Append(tree.nodes, root)],
     panic |-> find_root_idx(tree, position[1]) = None]

\* Cursor::add_root_to_tree; the result is the tree, or None-parent panic
add_root_to_tree(tree, position, root) ==
    LET root_idx == Len(tree.nodes)
        added == [tree EXCEPT !.nodes = Append(tree.nodes, root)]
        parent_idx == find_root_idx(added, position[1])
    IN [tree |-> [added EXCEPT !.edges = Append(added.edges, <<parent_idx, root_idx>>)],
        panic |-> parent_idx = None]

\* Cursor::new
new(root, edges) ==
    LET elements == get_children_unique_inclusive_sorted(root, edges)
    IN [some |-> TRUE,
        elements_by_root |-> Put(<<>>, root, elements),
        roots_by_element |-> [e \in {elements[i] : i \in 1..Len(elements)} |-> {root}],
        roots_tree |-> [nodes |-> <<root>>, edges |-> <<>>],
        position |-> <<root, root>>]

\* Cursor::update without the insert into elements_by_root
update_no_insert(c, root, edges) ==
    LET t == add_root_to_tree(c.roots_tree, c.position, root)
    IN [cursor |-> [c EXCEPT !.roots_tree = t.tree, !.position = <<root, root>>],
        panic |-> t.panic]

\* Cursor::update; result [cursor, panic]
update(c, root, edges) ==
    LET elements == get_children_unique_inclusive_sorted(root, edges)
        els == {elements[i] : i \in 1..Len(elements)}
        rbe == [e \in (DOMAIN c.roots_by_element) \cup els |->
                   IF e \in els
                   THEN (IF e \in DOMAIN c.roots_by_element
                         THEN c.roots_by_element[e] \cup {root}
                         ELSE {root})
                   ELSE c.roots_by_element[e]]
        t == add_root_to_tree(c.roots_tree, c.position, root)
    IN [cursor |-> [some |-> TRUE,
                    elements_by_root |-> Put(c.elements_by_root, root, elements),
                    roots_by_element |-> rbe,
                    roots_tree |-> t.tree,
                    position |-> <<root, root>>],
        panic |-> t.panic]

\* iter().skip_while(|el| **el != idx).skip(1).next(): the element after the
\* first occurrence of idx in s, None when there is none
after_first(s, idx) ==
    LET hits == {i \in 1..Len(s) : s[i] = idx}
    IN IF hits = {} \/ Min(hits) = Len(s) THEN None ELSE s[Min(hits) + 1]

\* Cursor::next_child stopping at the last element instead of wrapping
next_child_no_wrap(c) ==
    LET root == c.position[1]
        idx == c.position[2]
        nxt == after_first(c.elements_by_root[root], idx)
    IN [c EXCEPT !.position = <<root, IF nxt = None THEN idx ELSE nxt>>]

\* Cursor::next_child; the returned node is the new position[2]
next_child(c) ==
    LET root == c.position[1]
        idx == c.position[2]
        els == c.elements_by_root[root]
        nxt == after_first(els, idx)
    IN [c EXCEPT !.position = <<root, IF nxt = None THEN els[1] ELSE nxt>>]

\* Cursor::prev_child; the returned node is the new position[2]
prev_child(c) ==
    LET root == c.position[1]
        idx == c.position[2]
        els == c.elements_by_root[root]
        prv == after_first(Reverse(els), idx)
    IN [c EXCEPT !.position = <<root, IF prv = None THEN els[Len(els)] ELSE prv>>]

\* Cursor::next_root; result [cursor, ret, panic], ret None for Option::None
next_root(c) ==
    LET curr == c.position[1]
        curr_rt_idx == find_root_idx(c.roots_tree, curr)
        outs == neighbors_outgoing(c.roots_tree.edges, curr_rt_idx)
    IN IF curr_rt_idx = None THEN [cursor |-> c, ret |-> None, panic |-> TRUE]
       ELSE IF outs = <<>> THEN [cursor |-> c, ret |-> None, panic |-> FALSE]
       ELSE LET nxt == c.roots_tree.nodes[outs[1] + 1]
            IN IF nxt \notin DOMAIN c.elements_by_root
               THEN [cursor |-> c, ret |-> None, panic |-> TRUE]
               ELSE [cursor |-> [c EXCEPT !.position = <<nxt, c.elements_by_root[nxt][1]>>],
                     ret |-> nxt, panic |-> FALSE]

\* Cursor::prev_root; result [cursor, ret, panic].  The incoming neighbour is
\* a roots_tree index and is used as a graph NodeIndex without reading its
\* weight; elements_by_root[&next] panics when it is not a registered root.
prev_root(c) ==
    LET curr == c.position[1]
        curr_rt_idx == find_root_idx(c.roots_tree, curr)
        ins == neighbors_incoming(c.roots_tree.edges, curr_rt_idx)
    IN IF curr_rt_idx = None THEN [cursor |-> c, ret |-> None, panic |-> TRUE]
       ELSE IF ins = <<>> THEN [cursor |-> c, ret |-> None, panic |-> FALSE]
       ELSE LET nxt == ins[1]
            IN IF nxt \notin DOMAIN c.elements_by_root
               THEN [cursor |-> c, ret |-> None, panic |-> TRUE]
               ELSE [cursor |-> [c EXCEPT !.position = <<nxt, c.elements_by_root[nxt][1]>>],
                     ret |-> nxt, panic |-> FALSE]

\* Cursor::roots: the roots of idx collected from a HashSet into a Vec.  The
\* iteration order of a HashSet is unspecified (it depends on the hasher's
\* random keys), so every ordering is a possible result; the empty set
\* stands for Option::None.
roots(c, idx) ==
    IF idx \notin DOMAIN c.roots_by_element THEN {}
    ELSE LET S == c.roots_by_element[idx]
             n == Cardinality(S)
         IN {v \in [1..n -> S] : \A i, j \in 1..n : v[i] = v[j] => i = j}

\* Cursor::sticky_root for one result v of roots(idx)
sticky_root(c, v) ==
    IF Len(v) = 1 THEN v[1]
    ELSE IF \E i \in 1..Len(v) : v[i] = c.position[1] THEN c.position[1]
    ELSE v[1]

\* ------------------------------------------------------------ app.rs: graph
\* add_node_to_sim: the simulation node is named after idx and appended to
\* the simulation graph, whose own index for it is returned
add_node_to_sim(sn, idx) == [sim_nodes |-> Append(sn, idx), ret |-> Len(sn)]

\* add_node: add_node_custom gives the node the graph's next index; the value
\* returned is the one add_node_to_sim returns
add_node(gn, sn, url) ==
    LET idx == Len(gn)
        s == add_node_to_sim(sn, idx)
    IN [g_nodes |-> Append(gn, NewNode(url)), sim_nodes |-> s.sim_nodes, ret |-> s.ret]

\* add_edge without the simulation's edge
add_edge_g_only(G, start, end) ==
    IF start \notin NodeIndices(G.g_nodes) \/ end \notin NodeIndices(G.g_nodes)
    THEN [G EXCEPT !.halt = "panic"]
    ELSE [G EXCEPT !.g_edges = Append(G.g_edges, <<start, end>>)]

\* add_edge: egui_graphs::add_edge and ForceGraph::add_edge both append an
\* edge; petgraph keeps parallel edges and panics on a missing endpoint
add_edge(G, start, end) ==
    IF start \notin NodeIndices(G.g_nodes) \/ end \notin NodeIndices(G.g_nodes)
       \/ start \notin NodeIndices(G.sim_nodes) \/ end \notin NodeIndices(G.sim_nodes)
    THEN [G EXCEPT !.halt = "panic"]
    ELSE [G EXCEPT !.g_edges = Append(G.g_edges, <<start, end>>),
                   !.sim_edges = Append(G.sim_edges, <<start, end>>)]

\* the Ok(url) arm with the node_by_url lookup left out: always a new node
upsert_child_no_lookup(G, parent_idx, url) ==
    LET n == add_node(G.g_nodes, G.sim_nodes, url)
        G1 == [G EXCEPT !.g_nodes = n.g_nodes, !.sim_nodes = n.sim_nodes,
                        !.node_by_url = Put(G.node_by_url, url, n.ret)]
    IN add_edge(G1, parent_idx, n.ret)

\* process_active_tasks, the Ok(url) arm; G holds g, sim, node_by_url, halt
upsert_child(G, parent_idx, url) ==
    IF parent_idx \notin NodeIndices(G.g_nodes)
    THEN [G EXCEPT !.halt = "panic"]
    ELSE IF url \in DOMAIN G.node_by_url
    THEN add_edge(G, parent_idx, G.node_by_url[url])
    ELSE LET n == add_node(G.g_nodes, G.sim_nodes, url)
             G1 == [G EXCEPT !.g_nodes = n.g_nodes, !.sim_nodes = n.sim_nodes,
                             !.node_by_url = Put(G.node_by_url, url, n.ret)]
         IN add_edge(G1, parent_idx, n.ret)

\* ------------------------------------------------------------ app.rs: tasks
\* outcomes on a channel: a link l for Ok(l), ErrItem for Err(_)
ErrItem == 0

Outcomes == Links \cup {ErrItem}

\* create_new_task: a fresh channel and a running worker.  produced and
\* applied record what the worker sent and what the poll received;
\* node_base and edge_base are the sizes of the graph when the task started.
NewTask(gn, ge) ==
    [chan |-> <<>>, finished |-> FALSE, fault |-> FALSE,
     produced |-> <<>>, applied |-> <<>>,
     node_base |-> Len(gn), edge_base |-> Len(ge)]

\* create_new_task keying the record to another node index
create_new_task_other_key(tasks, idx, gn, ge) == Put(tasks, idx + 1, NewTask(gn, ge))

create_new_task(tasks, idx, gn, ge) == Put(tasks, idx, NewTask(gn, ge))

\* a receiver that takes the newest outcome instead of the oldest
try_recv_newest(chan) ==
    IF chan = <<>> THEN [ok |-> FALSE, item |-> None, rest |-> chan]
    ELSE [ok |-> TRUE, item |-> chan[Len(chan)], rest |-> SubSeq(chan, 1, Len(chan) - 1)]

\* Receiver::try_recv on an unbounded channel: the oldest outcome, or Err
try_recv(chan) ==
    IF chan = <<>> THEN [ok |-> FALSE, item |-> None, rest |-> chan]
    ELSE [ok |-> TRUE, item |-> Head(chan), rest |-> Tail(chan)]

\* the Err(err) arm removing the record as if the task had ended
after_err_drop(tasks, p) == Drop(tasks, {p})

\* process_active_tasks, the Err(err) arm of a received result: logged only
after_err(tasks, p) == tasks

\* the poll's end moving on whether or not records remain
handle_state_graph_and_loading_always(st, result_ok, tasks) ==
    IF result_ok THEN next(st, "Success") ELSE next(st, "Failure")

\* handle_state_graph_and_loading: the match on process_active_tasks' result
handle_state_graph_and_loading(st, result_ok, tasks) ==
    IF result_ok
    THEN (IF DOMAIN tasks = {} THEN next(st, "Success") ELSE st)
    ELSE next(st, "Failure")

\* process_active_tasks always ends with Ok(()): no arm returns an Err
process_active_tasks_result(tasks, finished) == TRUE

\* ------------------------------------------------------------ app.rs: selection
\* The operators below act on a record a of the fields they touch:
\* g_nodes, selected_node, cursor, halt.  A halted record is left as it is.

set_selected(nodes, idx, v) == [nodes EXCEPT ![idx + 1].selected = v]

\* App::select_node setting the flag without recording selected_node
select_node_unrecorded(a, idx) ==
    IF a.halt # "none" THEN a
    ELSE IF idx \notin NodeIndices(a.g_nodes) THEN [a EXCEPT !.halt = "panic"]
    ELSE [a EXCEPT !.g_nodes = set_selected(a.g_nodes, idx, TRUE)]

\* App::select_node without the clearing of the previous selection's flag
select_node_no_clear(a, idx) ==
    IF a.halt # "none" THEN a
    ELSE IF idx \notin NodeIndices(a.g_nodes) THEN [a EXCEPT !.halt = "panic"]
    ELSE [a EXCEPT !.g_nodes = set_selected(a.g_nodes, idx, TRUE),
                   !.selected_node = idx]

\* App::select_node
select_node(a, idx) ==
    IF a.halt # "none" THEN a
    ELSE IF (a.selected_node # None /\ a.selected_node \notin NodeIndices(a.g_nodes))
            \/ idx \notin NodeIndices(a.g_nodes)
    THEN [a EXCEPT !.halt = "panic"]
    ELSE LET cleared == IF a.selected_node # None
                        THEN set_selected(a.g_nodes, a.selected_node, FALSE)
                        ELSE a.g_nodes
         IN [a EXCEPT !.g_nodes = set_selected(cleared, idx, TRUE),
                      !.selected_node = idx]

\* App::select_next
select_next(a) ==
    IF a.halt # "none" THEN a
    ELSE IF ~a.cursor.some THEN [a EXCEPT !.halt = "panic"]
    ELSE LET c == next_child(a.cursor)
         IN select_node([a EXCEPT !.cursor = c], c.position[2])

\* App::select_prev
select_prev(a) ==
    IF a.halt # "none" THEN a
    ELSE IF ~a.cursor.some THEN [a EXCEPT !.halt = "panic"]
    ELSE LET c == prev_child(a.cursor)
         IN select_node([a EXCEPT !.cursor = c], c.position[2])

\* the loop of select_next_article / select_prev_article: c is the cursor
\* after a step, steps counts the steps taken.  The members are visited
\* cyclically, so a loop that met no Article in as many steps as there are
\* members never ends.
RECURSIVE article_loop(_, _, _, _)
article_loop(c, nodes, forward, steps) ==
    LET n == c.position[2]
    IN IF n \notin NodeIndices(nodes) THEN [cursor |-> c, halt |-> "panic"]
       ELSE IF url_type(nodes[n + 1].url) = "Article" THEN [cursor |-> c, halt |-> "none"]
       ELSE IF steps > Len(c.elements_by_root[c.position[1]]) THEN [cursor |-> c, halt |-> "hang"]
       ELSE article_loop(IF forward THEN next_child(c) ELSE prev_child(c),
                         nodes, forward, steps + 1)

\* App::select_next_article
select_next_article(a) ==
    IF a.halt # "none" THEN a
    ELSE IF ~a.cursor.some THEN [a EXCEPT !.halt = "panic"]
    ELSE LET r == article_loop(next_child(a.cursor), a.g_nodes, TRUE, 1)
         IN IF r.halt # "none" THEN [a EXCEPT !.halt = r.halt]
            ELSE select_node([a EXCEPT !.cursor = r.cursor], r.cursor.position[2])

\* App::select_prev_article
select_prev_article(a) ==
    IF a.halt # "none" THEN a
    ELSE IF ~a.cursor.some THEN [a EXCEPT !.halt = "panic"]
    ELSE LET r == article_loop(prev_child(a.cursor), a.g_nodes, FALSE, 1)
         IN IF r.halt # "none" THEN [a EXCEPT !.halt = r.halt]
            ELSE select_node([a EXCEPT !.cursor = r.cursor], r.cursor.position[2])

\* App::select_next_root
select_next_root(a) ==
    IF a.halt # "none" THEN a
    ELSE IF ~a.cursor.some THEN [a EXCEPT !.halt = "panic"]
    ELSE LET curr_root == a.cursor.position[1]
             r == next_root(a.cursor)
         IN IF r.panic THEN [a EXCEPT !.halt = "panic"]
            ELSE select_node([a EXCEPT !.cursor = r.cursor],
                             IF r.ret # None THEN r.ret ELSE curr_root)

\* App::select_prev_root
select_prev_root(a) ==
    IF a.halt # "none" THEN a
    ELSE IF ~a.cursor.some THEN [a EXCEPT !.halt = "panic"]
    ELSE LET curr_root == a.cursor.position[1]
             r == prev_root(a.cursor)
         IN IF r.panic THEN [a EXCEPT !.halt = "panic"]
            ELSE select_node([a EXCEPT !.cursor = r.cursor],
                             IF r.ret # None THEN r.ret ELSE curr_root)

\* App::generate_toolbox_state: cursor.as_ref().unwrap() when a node is selected
toolbox_panics(sel, c) == sel # None /\ ~c.some

\* ------------------------------------------------------------ initial state
\* App::default
Init ==
    /\ state = "Input"
    /\ pc = "handle_state"
    /\ root_article_url = 0
    /\ g_nodes = <<>>
    /\ g_edges = <<>>
    /\ sim_nodes = <<>>
    /\ sim_edges = <<>>
    /\ node_by_url = <<>>
    /\ active_tasks = <<>>
    /\ selected_node = None
    /\ cursor = NoCursor
    /\ changes = <<>>
    /\ halt = "none"
    /\ poll_todo = {}
    /\ poll_cur = None
    /\ finished_tasks = {}
    /\ tasks_started = 0
    /\ outcomes_sent = 0
    /\ g_layout = <<>>
    /\ sim_location = <<>>

graph_vars == <<g_nodes, g_edges, sim_nodes, sim_edges, node_by_url>>

poll_vars == <<poll_todo, poll_cur, finished_tasks, outcomes_sent>>

poll_locals == <<poll_todo, poll_cur, finished_tasks>>

\* ------------------------------------------------------------ the workers
\* UrlRetriever::run: the worker pushes an outcome onto its channel
WorkerSend(p, item) ==
    /\ halt = "none"
    /\ p \in DOMAIN active_tasks
    /\ ~active_tasks[p].finished
    /\ outcomes_sent < MaxSend
    /\ outcomes_sent' = outcomes_sent + 1
    /\ active_tasks' = [active_tasks EXCEPT
                           ![p].chan = Append(@, item),
                           ![p].produced = Append(@, item)]
    /\ UNCHANGED <<layout_vars, state, pc, root_article_url, graph_vars, selected_node, cursor,
                   changes, halt, poll_locals, tasks_started>>

\* the worker's task returns: JoinHandle::is_finished becomes true
WorkerFinish(p) ==
    /\ halt = "none"
    /\ p \in DOMAIN active_tasks
    /\ ~active_tasks[p].finished
    /\ active_tasks' = [active_tasks EXCEPT ![p].finished = TRUE]
    /\ UNCHANGED <<layout_vars, state, pc, root_article_url, graph_vars, selected_node, cursor,
                   changes, halt, poll_vars, tasks_started>>

\* the worker's task panics: JoinHandle::is_finished becomes true as well
WorkerPanic(p) ==
    /\ halt = "none"
    /\ p \in DOMAIN active_tasks
    /\ ~active_tasks[p].finished
    /\ active_tasks' = [active_tasks EXCEPT ![p].finished = TRUE, ![p].fault = TRUE]
    /\ UNCHANGED <<layout_vars, state, pc, root_article_url, graph_vars, selected_node, cursor,
                   changes, halt, poll_vars, tasks_started>>

\* ------------------------------------------------------------ handle_state
\* handle_state in Input, InputError, GraphAndLoadingError: nothing
HandleStateIdle ==
    /\ halt = "none"
    /\ pc = "handle_state"
    /\ state \in {"Input", "InputError", "GraphAndLoadingError"}
    /\ pc' = "draw"
    /\ UNCHANGED <<layout_vars, state, root_article_url, graph_vars, active_tasks, selected_node,
                   cursor, changes, halt, poll_vars, tasks_started>>

\* process_active_tasks: the for_each over active_tasks starts
BeginPoll ==
    /\ halt = "none"
    /\ pc = "handle_state"
    /\ state = "GraphAndLoading"
    /\ pc' = "poll"
    /\ poll_todo' = DOMAIN active_tasks
    /\ poll_cur' = None
    /\ finished_tasks' = {}
    /\ UNCHANGED <<layout_vars, state, root_article_url, graph_vars, active_tasks, selected_node,
                   cursor, changes, halt, tasks_started, outcomes_sent>>

\* process_active_tasks: receiver.try_recv() for one record.  An outcome is
\* applied at once; on Err the closure goes on to join_handle.is_finished().
PollTryRecv(p) ==
    /\ halt = "none"
    /\ pc = "poll"
    /\ poll_cur = None
    /\ p \in poll_todo
    /\ LET r == try_recv(active_tasks[p].chan)
           received == [active_tasks EXCEPT ![p].chan = r.rest,
                                            ![p].applied = Append(@, r.item)]
           G == [g_nodes |-> g_nodes, g_edges |-> g_edges, sim_nodes |-> sim_nodes,
                 sim_edges |-> sim_edges, node_by_url |-> node_by_url, halt |-> halt]
           G1 == IF r.ok /\ r.item # ErrItem THEN upsert_child(G, p, r.item) ELSE G
       IN /\ poll_cur' = IF r.ok THEN None ELSE p
          /\ poll_todo' = IF r.ok THEN poll_todo \ {p} ELSE poll_todo
          /\ active_tasks' = IF ~r.ok THEN active_tasks
                             ELSE IF r.item = ErrItem THEN after_err(received, p)
                             ELSE received
          /\ g_nodes' = G1.g_nodes
          /\ g_edges' = G1.g_edges
          /\ sim_nodes' = G1.sim_nodes
          /\ sim_edges' = G1.sim_edges
          /\ node_by_url' = G1.node_by_url
          /\ halt' = G1.halt
    /\ UNCHANGED <<layout_vars, state, pc, root_article_url, selected_node, cursor, changes,
                   finished_tasks, tasks_started, outcomes_sent>>

\* process_active_tasks: join_handle.is_finished() after try_recv's Err
PollIsFinished ==
    /\ halt = "none"
    /\ pc = "poll"
    /\ poll_cur # None
    /\ finished_tasks' = IF active_tasks[poll_cur].finished
                         THEN finished_tasks \cup {poll_cur}
                         ELSE finished_tasks
    /\ poll_todo' = poll_todo \ {poll_cur}
    /\ poll_cur' = None
    /\ UNCHANGED <<layout_vars, state, pc, root_article_url, graph_vars, active_tasks, selected_node,
                   cursor, changes, halt, tasks_started, outcomes_sent>>

\* process_active_tasks' end (the finished records are removed) and the
\* match of handle_state_graph_and_loading on its result
EndPoll ==
    /\ halt = "none"
    /\ pc = "poll"
    /\ poll_cur = None
    /\ poll_todo = {}
    /\ LET missing == \E f \in finished_tasks : f \notin NodeIndices(g_nodes)
           left == Drop(active_tasks, finished_tasks)
       IN /\ halt' = IF missing THEN "panic" ELSE halt
          /\ active_tasks' = IF missing THEN active_tasks ELSE left
          /\ state' = IF missing THEN state
                      ELSE handle_state_graph_and_loading(
                               state, process_active_tasks_result(active_tasks, finished_tasks),
                               left)
    /\ finished_tasks' = {}
    /\ pc' = "draw"
    /\ UNCHANGED <<layout_vars, root_article_url, graph_vars, selected_node, cursor, changes,
                   poll_todo, poll_cur, tasks_started, outcomes_sent>>

\* handle_state_graph_loaded
HandleStateGraphLoaded ==
    /\ halt = "none"
    /\ pc = "handle_state"
    /\ state = "GraphLoaded"
    /\ LET a == [g_nodes |-> g_nodes, selected_node |-> selected_node,
                 cursor |-> cursor, halt |-> halt]
           first_root == 0
           u == update(cursor, selected_node, g_edges)
           a1 == IF ~cursor.some
                 THEN select_node([a EXCEPT !.cursor = new(first_root, g_edges)], first_root)
                 ELSE IF selected_node = None \/ u.panic
                 THEN [a EXCEPT !.halt = "panic"]
                 ELSE [a EXCEPT !.cursor = u.cursor]
       IN /\ halt' = a1.halt
          /\ g_nodes' = a1.g_nodes
          /\ selected_node' = a1.selected_node
          /\ cursor' = a1.cursor
          /\ state' = IF a1.halt = "none" THEN next(state, "Success") ELSE state
    /\ pc' = "draw"
    /\ UNCHANGED <<layout_vars, root_article_url, g_edges, sim_nodes, sim_edges, node_by_url,
                   active_tasks, changes, poll_vars, tasks_started>>

\* handle_state_graph: one event of the changes channel, if any
HandleStateGraph ==
    /\ halt = "none"
    /\ pc = "handle_state"
    /\ state = "Graph"
    /\ LET a == [g_nodes |-> g_nodes, selected_node |-> selected_node,
                 cursor |-> cursor, halt |-> halt]
           a1 == IF changes # <<>> THEN select_node(a, Head(changes)) ELSE a
       IN /\ halt' = a1.halt
          /\ g_nodes' = a1.g_nodes
          /\ selected_node' = a1.selected_node
          /\ cursor' = a1.cursor
    /\ changes' = IF changes # <<>> THEN Tail(changes) ELSE changes
    /\ pc' = "draw"
    /\ UNCHANGED <<layout_vars, state, root_article_url, g_edges, sim_nodes, sim_edges, node_by_url,
                   active_tasks, poll_vars, tasks_started>>

\* ------------------------------------------------------------ draw
\* draw_input: the text field, which the user may edit
DrawInput(text) ==
    /\ halt = "none"
    /\ pc = "draw"
    /\ state = "Input"
    /\ root_article_url' = text
    /\ pc' = "handle_keys"
    /\ UNCHANGED <<layout_vars, state, graph_vars, active_tasks, selected_node, cursor, changes,
                   halt, poll_vars, tasks_started>>

\* draw_input_error: an edit of the text leads back to Input
DrawInputError(text) ==
    /\ halt = "none"
    /\ pc = "draw"
    /\ state = "InputError"
    /\ root_article_url' = text
    /\ state' = IF text # root_article_url THEN next(state, "Success") ELSE state
    /\ pc' = "handle_keys"
    /\ UNCHANGED <<layout_vars, graph_vars, active_tasks, selected_node, cursor, changes,
                   halt, poll_vars, tasks_started>>

\* draw_graph_and_loading (no interaction); draw in GraphAndLoadingError is todo!()
DrawGraphAndLoading ==
    /\ halt = "none"
    /\ pc = "draw"
    /\ state \in {"GraphAndLoading", "GraphAndLoadingError"}
    /\ halt' = IF state = "GraphAndLoadingError" \/ toolbox_panics(selected_node, cursor)
               THEN "panic" ELSE halt
    /\ pc' = "handle_keys"
    /\ UNCHANGED <<layout_vars, state, root_article_url, graph_vars, active_tasks, selected_node,
                   cursor, changes, poll_vars, tasks_started>>

\* draw_selected_node: the "get links" button is drawn for an Article only
get_links_shown(sel, nodes) ==
    /\ sel # None
    /\ sel \in NodeIndices(nodes)
    /\ url_type(nodes[sel + 1].url) = "Article"

\* draw_graph: the toolbox, whose "get links" button may be clicked, and the
\* graph view, in which the user may click a node (ev, None for no click)
DrawGraph(clicked, ev) ==
    /\ halt = "none"
    /\ pc = "draw"
    /\ state \in {"Graph", "GraphLoaded"}
    /\ clicked => get_links_shown(selected_node, g_nodes) /\ tasks_started < MaxTasks
    /\ ev # None => ev \in NodeIndices(g_nodes) /\ Len(changes) < MaxChanges
    /\ LET panics == toolbox_panics(selected_node, cursor)
                     \/ (selected_node # None /\ selected_node \notin NodeIndices(g_nodes))
           start == clicked /\ ~panics
       IN /\ halt' = IF panics THEN "panic" ELSE halt
          /\ active_tasks' = IF start
                             THEN create_new_task(active_tasks, selected_node, g_nodes, g_edges)
                             ELSE active_tasks
          /\ tasks_started' = IF start THEN tasks_started + 1 ELSE tasks_started
          /\ state' = IF start THEN "GraphAndLoading" ELSE state
          /\ changes' = IF ev # None /\ ~panics THEN Append(changes, ev) ELSE changes
    /\ pc' = "handle_keys"
    /\ UNCHANGED <<layout_vars, root_article_url, graph_vars, selected_node, cursor, poll_vars>>

\* ------------------------------------------------------------ handle_keys
\* handle_keys in InputError, GraphAndLoading, GraphAndLoadingError, GraphLoaded
HandleKeysIdle ==
    /\ halt = "none"
    /\ pc = "handle_keys"
    /\ state \in {"InputError", "GraphAndLoading", "GraphAndLoadingError", "GraphLoaded"}
    /\ pc' = "sync"
    /\ UNCHANGED <<layout_vars, state, root_article_url, graph_vars, active_tasks, selected_node,
                   cursor, changes, halt, poll_vars, tasks_started>>

\* handle_keys_input
HandleKeysInput(enter) ==
    /\ halt = "none"
    /\ pc = "handle_keys"
    /\ state = "Input"
    /\ enter => tasks_started < MaxTasks
    /\ pc' = "sync"
    /\ IF ~enter
       THEN UNCHANGED <<state, graph_vars, active_tasks, halt, tasks_started>>
       ELSE IF ~UrlParses(root_article_url)
       THEN /\ state' = next(state, "Failure")
            /\ UNCHANGED <<graph_vars, active_tasks, halt, tasks_started>>
       ELSE IF root_article_url = NoHostText
       THEN /\ halt' = "panic"
            /\ UNCHANGED <<state, graph_vars, active_tasks, tasks_started>>
       ELSE IF ~is_wiki(root_article_url)
       THEN /\ state' = next(state, "Failure")
            /\ UNCHANGED <<graph_vars, active_tasks, halt, tasks_started>>
       ELSE LET u == root_article_url
                idx == 0
                s == add_node_to_sim(sim_nodes, idx)
            IN /\ g_nodes' = <<NewNode(u)>>
               /\ g_edges' = <<>>
               /\ node_by_url' = Put(node_by_url, u, idx)
               /\ sim_nodes' = s.sim_nodes
               /\ sim_edges' = sim_edges
               /\ active_tasks' = create_new_task(active_tasks, idx, <<NewNode(u)>>, <<>>)
               /\ tasks_started' = tasks_started + 1
               /\ state' = next(state, "Success")
               /\ halt' = halt
    /\ UNCHANGED <<layout_vars, root_article_url, selected_node, cursor, changes, poll_vars>>

Keys == {"L", "H", "ArrowLeft", "ArrowRight", "ArrowDown", "ArrowUp", "Enter"}

\* handle_keys_graph: the pressed keys are handled in the order of the code
HandleKeysGraph(keys) ==
    /\ halt = "none"
    /\ pc = "handle_keys"
    /\ state = "Graph"
    /\ "Enter" \in keys => tasks_started < MaxTasks
    /\ LET a0 == [g_nodes |-> g_nodes, selected_node |-> selected_node,
                  cursor |-> cursor, halt |-> halt]
           a1 == IF "L" \in keys THEN select_next(a0) ELSE a0
           a2 == IF "H" \in keys THEN select_prev(a1) ELSE a1
           a3 == IF "ArrowLeft" \in keys THEN select_prev_article(a2) ELSE a2
           a4 == IF "ArrowRight" \in keys THEN select_next_article(a3) ELSE a3
           a5 == IF "ArrowDown" \in keys THEN select_next_root(a4) ELSE a4
           a6 == IF "ArrowUp" \in keys THEN select_prev_root(a5) ELSE a5
           start == "Enter" \in keys /\ a6.halt = "none" /\ a6.selected_node # None
       IN /\ g_nodes' = a6.g_nodes
          /\ selected_node' = a6.selected_node
          /\ cursor' = a6.cursor
          /\ halt' = a6.halt
          /\ active_tasks' = IF start
                             THEN create_new_task(active_tasks, a6.selected_node,
                                                  a6.g_nodes, g_edges)
                             ELSE active_tasks
          /\ tasks_started' = IF start THEN tasks_started + 1 ELSE tasks_started
          /\ state' = IF start THEN "GraphAndLoading" ELSE state
    /\ pc' = "sync"
    /\ UNCHANGED <<layout_vars, root_article_url, g_edges, sim_nodes, sim_edges, node_by_url,
                   changes, poll_vars>>

\* ------------------------------------------------------------ simulation
\* an edge slot of the simulation graph whose edge has been removed
Vacant == <<>>

\* update_simulation: looped_edges, the slots of the edges with equal endpoints
looped_edges(se) == {i \in 1..Len(se) : se[i] # Vacant /\ se[i][1] = se[i][2]}

\* update_simulation: the simulation graph on which sim.update runs, the
\* looped edges removed
remove_looped(se) ==
    [i \in 1..Len(se) |-> IF i \in looped_edges(se) THEN Vacant ELSE se[i]]

\* update_simulation stopping after sim.update: no loop is restored
update_simulation_no_restore(se) == remove_looped(se)

\* update_simulation: the looped edges are removed in index order, the
\* simulation steps, and one loop per removed edge is added again.  A
\* StableGraph reuses the slot freed last first, so the restored loops fill
\* the freed slots in reverse.
update_simulation(se) ==
    LET slots == looped_edges(se)
        stepped == remove_looped(se)
        rank(i) == Cardinality({j \in slots : j <= i})
        nth(k) == CHOOSE i \in slots : rank(i) = k
    IN [i \in 1..Len(se) |->
           IF stepped[i] = Vacant
           THEN se[nth(Cardinality(slots) + 1 - rank(i))]
           ELSE stepped[i]]

\* sync_graph_with_simulation with both assignments made for every node
sync_graph_with_simulation_both(gl, sl) ==
    [g |-> [i \in 1..Len(gl) |->
               [gl[i] EXCEPT !.location = <<sl[i][1], sl[i][2]>>]],
     sim |-> [i \in 1..Len(sl) |->
               IF i <= Len(gl) THEN <<gl[i].location[1], gl[i].location[2], 0>> ELSE sl[i]]]

\* sync_graph_with_simulation on the locations: gl[i] is the graph node of
\* index i - 1 (location as Pos2, dragged), sl[i] its simulation point (Vec3)
sync_graph_with_simulation(gl, sl) ==
    [g |-> [i \in 1..Len(gl) |->
               IF gl[i].dragged THEN gl[i]
               ELSE [gl[i] EXCEPT !.location = <<sl[i][1], sl[i][2]>>]],
     sim |-> [i \in 1..Len(sl) |->
               IF i <= Len(gl) /\ gl[i].dragged
               THEN <<gl[i].location[1], gl[i].location[2], 0>>
               ELSE sl[i]]]

\* sync_graph_with_simulation unwraps the simulation node of every graph node
sync_panics(gn, sn) == \E i \in NodeIndices(gn) : i \notin NodeIndices(sn)

\* the end of App::update: sync_graph_with_simulation; update_simulation
SyncAndSimulate ==
    /\ halt = "none"
    /\ pc = "sync"
    /\ halt' = IF sync_panics(g_nodes, sim_nodes) THEN "panic" ELSE halt
    /\ sim_edges' = IF sync_panics(g_nodes, sim_nodes) THEN sim_edges
                    ELSE update_simulation(sim_edges)
    /\ g_layout' = sync_graph_with_simulation(g_layout, sim_location).g
    /\ sim_location' = sync_graph_with_simulation(g_layout, sim_location).sim
    /\ pc' = "handle_state"
    /\ UNCHANGED <<state, root_article_url, g_nodes, g_edges, sim_nodes, node_by_url,
                   active_tasks, selected_node, cursor, changes, poll_vars, tasks_started>>

\* ------------------------------------------------------------ specification
KeySets == {ks \in SUBSET Keys : Cardinality(ks) <= MaxKeys}

WorkerNext ==
    \/ \E p \in DOMAIN active_tasks, item \in Outcomes : WorkerSend(p, item)
    \/ \E p \in DOMAIN active_tasks : WorkerFinish(p)
    \/ \E p \in DOMAIN active_tasks : WorkerPanic(p)

AppNext ==
    \/ HandleStateIdle
    \/ BeginPoll
    \/ \E p \in poll_todo : PollTryRecv(p)
    \/ PollIsFinished
    \/ EndPoll
    \/ HandleStateGraphLoaded
    \/ HandleStateGraph
    \/ \E text \in Texts : DrawInput(text)
    \/ \E text \in Texts : DrawInputError(text)
    \/ DrawGraphAndLoading
    \/ \E clicked \in BOOLEAN, ev \in {None} \cup NodeIndices(g_nodes) : DrawGraph(clicked, ev)
    \/ HandleKeysIdle
    \/ \E enter \in BOOLEAN : HandleKeysInput(enter)
    \/ \E keys \in KeySets : HandleKeysGraph(keys)
    \/ SyncAndSimulate

Next == WorkerNext \/ AppNext

Spec == Init /\ [][Next]_vars

\* The steps of a frame while a fetch is outstanding
LoadingFrame ==
    \/ BeginPoll
    \/ \E p \in poll_todo : PollTryRecv(p)
    \/ PollIsFinished
    \/ EndPoll
    \/ DrawGraphAndLoading
    \/ HandleKeysIdle
    \/ SyncAndSimulate

\* Frames keep occurring and every worker ends: eframe calls App::update for
\* every frame, and a spawned worker task runs to its end.
LiveSpec ==
    /\ Init
    /\ [][Next]_vars
    /\ WF_vars(LoadingFrame)
    /\ WF_vars(\E p \in DOMAIN active_tasks : WorkerFinish(p))

\* ------------------------------------------------------------ update_simulation
\* The sequences over S of at most n elements
SeqsUpTo(S, n) == UNION {[1..k -> S] : k \in 0..n}

\* update_simulation as a function of the simulation graph: the simulation
\* holds NumLinks nodes and any edges, the App is otherwise as constructed
\* and stands before the update_simulation call of App::update.
SimInit ==
    /\ state = "Input"
    /\ pc = "sync"
    /\ root_article_url = 0
    /\ g_nodes = <<>>
    /\ g_edges = <<>>
    /\ sim_nodes = [i \in 1..NumLinks |-> i - 1]
    /\ sim_edges \in SeqsUpTo((0..(NumLinks - 1)) \X (0..(NumLinks - 1)), MaxSimEdges)
    /\ node_by_url = <<>>
    /\ active_tasks = <<>>
    /\ selected_node = None
    /\ cursor = NoCursor
    /\ changes = <<>>
    /\ halt = "none"
    /\ poll_todo = {}
    /\ poll_cur = None
    /\ finished_tasks = {}
    /\ tasks_started = 0
    /\ outcomes_sent = 0
    /\ g_layout = <<>>
    /\ sim_location = <<>>

\* App::update: update_simulation(&mut self.sim)
UpdateSimulation ==
    /\ pc = "sync"
    /\ sim_edges' = update_simulation(sim_edges)
    /\ pc' = "handle_state"
    /\ UNCHANGED <<layout_vars, state, root_article_url, g_nodes, g_edges, sim_nodes, node_by_url,
                   active_tasks, selected_node, cursor, changes, halt, poll_vars,
                   tasks_started>>

SimSpec == SimInit /\ [][UpdateSimulation]_vars

\* ------------------------------------------------------------ locations
Coords == 0..MaxCoord

\* egui Pos2
Pos2 == Coords \X Coords

\* glam Vec3
Vec3 == Coords \X Coords \X Coords

\* The App after the root and its LayoutNodes - 1 links have been loaded:
\* state Graph, the root selected, standing at the draw call of a frame.
\* Each node was bound to a random location by add_node and mirrored by
\* add_node_to_sim at Vec3::new(loc.x, loc.y, 0.); no node is dragged.
LayoutInit ==
    /\ state = "Graph"
    /\ pc = "draw"
    /\ root_article_url = 1
    /\ g_nodes = [i \in 1..LayoutNodes |-> [url |-> i, selected |-> i = 1]]
    /\ g_edges = [i \in 1..(LayoutNodes - 1) |-> <<0, i>>]
    /\ sim_nodes = [i \in 1..LayoutNodes |-> i - 1]
    /\ sim_edges = [i \in 1..(LayoutNodes - 1) |-> <<0, i>>]
    /\ node_by_url = [l \in 1..LayoutNodes |-> l - 1]
    /\ active_tasks = <<>>
    /\ selected_node = 0
    /\ cursor = new(0, [i \in 1..(LayoutNodes - 1) |-> <<0, i>>])
    /\ changes = <<>>
    /\ halt = "none"
    /\ poll_todo = {}
    /\ poll_cur = None
    /\ finished_tasks = {}
    /\ tasks_started = 1
    /\ outcomes_sent = LayoutNodes - 1
    /\ g_layout \in [1..LayoutNodes -> [location : Pos2, dragged : {FALSE}]]
    /\ sim_location = [i \in 1..LayoutNodes |->
                          <<g_layout[i].location[1], g_layout[i].location[2], 0>>]

layout_frame_vars ==
    <<state, root_article_url, g_nodes, g_edges, sim_nodes, sim_edges, node_by_url,
      active_tasks, selected_node, cursor, changes, halt, poll_vars, tasks_started>>

\* draw_view_graph with dragging enabled: the user drags no node (d is None)
\* or holds node d at the location loc; a node is dragged only while held
DragNode(d, loc) ==
    /\ pc = "draw"
    /\ g_layout' = [i \in 1..Len(g_layout) |->
                       IF i - 1 = d THEN [location |-> loc, dragged |-> TRUE]
                       ELSE [g_layout[i] EXCEPT !.dragged = FALSE]]
    /\ pc' = "sync"
    /\ UNCHANGED <<layout_frame_vars, sim_location>>

\* App::update: sync_graph_with_simulation(&mut self.g, &mut self.sim)
SyncLayout ==
    /\ pc = "sync"
    /\ g_layout' = sync_graph_with_simulation(g_layout, sim_location).g
    /\ sim_location' = sync_graph_with_simulation(g_layout, sim_location).sim
    /\ pc' = "simulate"
    /\ UNCHANGED layout_frame_vars

\* update_simulation: sim.update(SIMULATION_DT) moves the simulation points
SimulationStep(locs) ==
    /\ pc = "simulate"
    /\ sim_location' = locs
    /\ pc' = "draw"
    /\ UNCHANGED <<layout_frame_vars, g_layout>>

LayoutNext ==
    \/ \E d \in {None} \cup (0..(LayoutNodes - 1)), loc \in Pos2 : DragNode(d, loc)
    \/ SyncLayout
    \/ \E locs \in [1..LayoutNodes -> Vec3] : SimulationStep(locs)

LayoutSpec == LayoutInit /\ [][LayoutNext]_vars

\* ------------------------------------------------------------ properties
Urls(nodes) == {nodes[i].url : i \in 1..Len(nodes)}

Oks(s) == SelectSeq(s, LAMBDA x : x # ErrItem)

FirstPos(s, x) == Min({i \in 1..Len(s) : s[i] = x})

\* C1: every distinct link has exactly one graph node, and node_by_url is a
\* bijection between the links seen so far and the node indices of the graph.
NodeDedup ==
    /\ \A i, j \in 1..Len(g_nodes) : g_nodes[i].url = g_nodes[j].url => i = j
    /\ DOMAIN node_by_url = Urls(g_nodes)
    /\ \A l \in DOMAIN node_by_url :
          /\ node_by_url[l] \in NodeIndices(g_nodes)
          /\ g_nodes[node_by_url[l] + 1].url = l

\* C1 witness: a record has received a link it had received before, and a
\* link equal to the link of the node it expands
NodeDedupWitness ==
    \E p \in DOMAIN active_tasks :
        LET ap == active_tasks[p].applied
        IN /\ \E i, j \in 1..Len(ap) : i < j /\ ap[i] = ap[j] /\ ap[i] # ErrItem
           /\ p \in NodeIndices(g_nodes)
           /\ \E i \in 1..Len(ap) : ap[i] = g_nodes[p + 1].url

\* C2: the graph holds at most one edge for each ordered (parent, child) pair.
EdgePerPairAtMostOne ==
    \A i, j \in 1..Len(g_edges) : g_edges[i] = g_edges[j] => i = j

\* C3: a record leaves the active set only when its worker has finished and
\* its channel is empty, so that no outcome sent is left unapplied.
RemovedOnlyWhenDrained ==
    [][\A p \in DOMAIN active_tasks :
          p \notin DOMAIN active_tasks'
              => active_tasks[p].finished /\ active_tasks[p].chan = <<>>]_vars

\* C4: when the record of a worker that ended by a fault is removed, the
\* state machine takes the Failure fork to the expansion-failed state.
FaultTakesFailureFork ==
    [][\A p \in DOMAIN active_tasks :
          (p \notin DOMAIN active_tasks' /\ active_tasks[p].fault)
              => state' = "GraphAndLoadingError"]_vars

\* C5: the outcomes of a worker are applied in the order it produced them,
\* each Ok(link) adds exactly one edge from the record's node, and the nodes
\* the expansion created have node indices increasing in production order.
PerWorkerOrder ==
    \A p \in DOMAIN active_tasks :
        LET rec == active_tasks[p]
            oks == Oks(rec.applied)
            added == SubSeq(g_edges, rec.edge_base + 1, Len(g_edges))
        IN /\ rec.produced = rec.applied \o rec.chan
           /\ Len(added) = Len(oks)
           /\ \A i \in 1..Len(oks) :
                 /\ oks[i] \in DOMAIN node_by_url
                 /\ added[i] = <<p, node_by_url[oks[i]]>>
           /\ \A i, j \in rec.node_base..(Len(g_nodes) - 1) :
                 /\ \E k \in 1..Len(oks) : oks[k] = g_nodes[i + 1].url
                 /\ i < j => FirstPos(oks, g_nodes[i + 1].url) < FirstPos(oks, g_nodes[j + 1].url)

\* C5 witness: one expansion has created two nodes from two received links
PerWorkerOrderWitness ==
    \E p \in DOMAIN active_tasks :
        /\ Len(Oks(active_tasks[p].applied)) >= 2
        /\ Len(g_nodes) >= active_tasks[p].node_base + 2

ActiveOnlyWhileLoading ==
    state # "GraphAndLoading" => DOMAIN active_tasks = {}

\* C7 witness: an expansion has ended and Ready (GraphLoaded) is reached
ActiveOnlyWhileLoadingWitness ==
    state = "GraphLoaded" /\ tasks_started >= 1 /\ Len(g_nodes) >= 2

\* C8: once Ready (GraphLoaded) is reached the next state is Navigable
\* (Graph), with the cursor initialized or updated.
ReadyThenNavigable ==
    [][state = "GraphLoaded"
          => (state' = "GraphLoaded" \/ (state' = "Graph" /\ cursor'.some))]_vars

\* C8, the part that holds: from Expanding the system eventually has no
\* active record and reaches Ready
ExpandingLeadsToReady ==
    (state = "GraphAndLoading") ~> (state = "GraphLoaded" /\ DOMAIN active_tasks = {})

\* C9: the cursor's currentRoot is a registered root and its currentNode is
\* an element of that root's members.
CursorWellFormed ==
    cursor.some =>
        /\ cursor.position[1] \in DOMAIN cursor.elements_by_root
        /\ \E i \in 1..Len(cursor.elements_by_root[cursor.position[1]]) :
              cursor.elements_by_root[cursor.position[1]][i] = cursor.position[2]

\* C9 witness: with two roots registered, the cursor has been moved off the
\* root registered last and off the root node of its current root
CursorWellFormedWitness ==
    /\ cursor.some
    /\ Len(cursor.roots_tree.nodes) >= 2
    /\ cursor.position[1] # cursor.roots_tree.nodes[Len(cursor.roots_tree.nodes)]
    /\ cursor.position[2] # cursor.position[1]

\* C10: prev_root returns the graph node index of the root from which the
\* current root was registered and moves the cursor into that root's members.
PrevRootFollowsTree ==
    cursor.some =>
        LET rt == find_root_idx(cursor.roots_tree, cursor.position[1])
            ins == neighbors_incoming(cursor.roots_tree.edges, rt)
            r == prev_root(cursor)
        IN ins # <<>> =>
              /\ ~r.panic
              /\ r.ret = cursor.roots_tree.nodes[ins[1] + 1]
              /\ r.cursor.position[1] = r.ret

\* C10, the symmetric part, which holds: next_root returns the graph node
\* index of a root registered from the current root
NextRootFollowsTree ==
    cursor.some =>
        LET rt == find_root_idx(cursor.roots_tree, cursor.position[1])
            outs == neighbors_outgoing(cursor.roots_tree.edges, rt)
            r == next_root(cursor)
        IN outs # <<>> =>
              /\ ~r.panic
              /\ r.ret = cursor.roots_tree.nodes[outs[1] + 1]
              /\ r.cursor.position[1] = r.ret

\* the nodes returned by k calls of next_child (forward) or prev_child
RECURSIVE Walk(_, _, _)
Walk(c, k, forward) ==
    IF k = 0 THEN <<>>
    ELSE LET c1 == IF forward THEN next_child(c) ELSE prev_child(c)
         IN <<c1.position[2]>> \o Walk(c1, k - 1, forward)

\* C11: for every registered root with N members and every member m of it,
\* N calls of next_child from (root, m) end at m and return every member
\* exactly once; the same holds for prev_child.
CyclicWrap ==
    cursor.some =>
        \A root \in DOMAIN cursor.elements_by_root :
            LET els == cursor.elements_by_root[root]
                N == Len(els)
            IN \A k \in 1..N, forward \in BOOLEAN :
                  LET w == Walk([cursor EXCEPT !.position = <<root, els[k]>>], N, forward)
                  IN /\ w[N] = els[k]
                     /\ {w[i] : i \in 1..N} = {els[i] : i \in 1..N}
                     /\ \A i, j \in 1..N : w[i] = w[j] => i = j

\* C11 witness: in a root of three members the selection has been moved by
\* the cursor to the last member, which is not the root itself
CyclicWrapWitness ==
    /\ cursor.some
    /\ state = "Graph"
    /\ Len(cursor.elements_by_root[cursor.position[1]]) >= 3
    /\ cursor.position[2] = cursor.elements_by_root[cursor.position[1]][3]
    /\ cursor.position[2] # cursor.position[1]
    /\ selected_node = cursor.position[2]

\* C12: the step of handle_state_graph_loaded that registers a root (by
\* Cursor::new for the first root, by Cursor::update for a later one) leaves
\* members(root) strictly increasing and equal, as a set, to the root itself
\* and the out-neighbours of the root in the graph, and the cursor at
\* (root, root).
MembershipOnRegistration ==
    [][(pc = "handle_state" /\ state = "GraphLoaded" /\ state' = "Graph")
          => LET root == IF cursor.some THEN selected_node ELSE 0
                 els == cursor'.elements_by_root[root]
             IN /\ root \in DOMAIN cursor'.elements_by_root
                /\ \A i \in 1..(Len(els) - 1) : els[i] < els[i + 1]
                /\ {els[i] : i \in 1..Len(els)}
                      = {root} \cup {g_edges[i][2] : i \in {j \in 1..Len(g_edges) : g_edges[j][1] = root}}
                /\ cursor'.position = <<root, root>>]_vars

\* C12 witness: a root other than the first has just been registered by
\* Cursor::update; it has a child and no edge to itself
MembershipOnRegistrationWitness ==
    /\ state = "Graph"
    /\ pc = "draw"
    /\ cursor.some
    /\ cursor.position[1] # 0
    /\ cursor.position = <<cursor.position[1], cursor.position[1]>>
    /\ Len(cursor.roots_tree.nodes) >= 2
    /\ Len(cursor.elements_by_root[cursor.position[1]]) >= 2
    /\ \A i \in 1..Len(g_edges) : g_edges[i] # <<cursor.position[1], cursor.position[1]>>

\* the tree indices of a root tree that no edge enters
EntryNodes(tree) ==
    {i \in 0..(Len(tree.nodes) - 1) : \A k \in 1..Len(tree.edges) : tree.edges[k][2] # i}

\* C13: the root tree always has exactly one node without an incoming edge,
\* the node of the first root; and a Cursor::update(B) performed while the
\* cursor's root is A adds exactly one tree node, for B, and exactly one
\* edge, from A's tree node to the new node.
RootTreeShape ==
    [][/\ cursor'.some =>
             /\ EntryNodes(cursor'.roots_tree) = {0}
             /\ cursor'.roots_tree.nodes[1] = 0
       /\ (pc = "handle_state" /\ state = "GraphLoaded" /\ state' = "Graph" /\ cursor.some)
             => LET t == cursor.roots_tree
                    A == find_root_idx(t, cursor.position[1])
                IN /\ A # None
                   /\ cursor'.roots_tree.nodes = Append(t.nodes, selected_node)
                   /\ cursor'.roots_tree.edges = Append(t.edges, <<A, Len(t.nodes)>>)]_vars

\* C13 witness: three roots are registered and the last was registered
\* while the cursor's root was not the first root
RootTreeShapeWitness ==
    /\ cursor.some
    /\ Len(cursor.roots_tree.nodes) >= 3
    /\ \E k \in 1..Len(cursor.roots_tree.edges) :
          /\ cursor.roots_tree.edges[k][1] # 0
          /\ cursor.roots_tree.nodes[cursor.roots_tree.edges[k][1] + 1] # 0

\* the root tree read on the roots' node indices: the pairs (parent, child)
RootRelation(tree) ==
    {<<tree.nodes[tree.edges[k][1] + 1], tree.nodes[tree.edges[k][2] + 1]>> :
        k \in 1..Len(tree.edges)}

\* the roots reached from the roots of S by one to n steps of R
RECURSIVE Descendants(_, _, _)
Descendants(R, S, n) ==
    IF n = 0 THEN {}
    ELSE LET step == {p[2] : p \in {q \in R : q[1] \in S}}
         IN step \cup Descendants(R, step, n - 1)

\* C14: every expansion root occurs as exactly one node of the root tree,
\* and no root is its own ancestor in the tree.
RootTreeIsTree ==
    cursor.some =>
        LET t == cursor.roots_tree
        IN /\ \A i, j \in 1..Len(t.nodes) : t.nodes[i] = t.nodes[j] => i = j
           /\ \A r \in {t.nodes[i] : i \in 1..Len(t.nodes)} :
                 r \notin Descendants(RootRelation(t), {r}, Len(t.nodes))

\* C15: sticky_root(index) returns the only root of index, else the cursor's
\* current root when it is among index's roots, else the lowest of index's
\* roots; and any two evaluations in the same cursor state agree.
StickyRootDeterministic ==
    cursor.some =>
        \A idx \in DOMAIN cursor.roots_by_element :
            LET S == cursor.roots_by_element[idx]
                expected == IF Cardinality(S) = 1 THEN CHOOSE r \in S : TRUE
                            ELSE IF cursor.position[1] \in S THEN cursor.position[1]
                            ELSE Min(S)
            IN \A v, w \in roots(cursor, idx) :
                  /\ sticky_root(cursor, v) = expected
                  /\ sticky_root(cursor, v) = sticky_root(cursor, w)

\* C16: in Navigable (Graph) every step that changes the selection, by a
\* node-select event or by a navigation key, leaves the cursor's currentNode
\* equal to the selected node.
SelectionCursorAgree ==
    [][(state = "Graph" /\ halt' = "none" /\ selected_node' # selected_node)
          => cursor'.position[2] = selected_node']_vars

Count(se, e) == Cardinality({i \in 1..Len(se) : se[i] = e})

\* C18: update_simulation returns a simulation graph with the same self-loop
\* edges, node by node with multiplicity, and every edge that is not a loop
\* in its place, while the graph on which the physics step runs holds no
\* self-loop.
SelfLoopRestoration ==
    LET after == update_simulation(sim_edges)
        during == remove_looped(sim_edges)
    IN /\ Len(after) = Len(sim_edges)
       /\ \A n \in NodeIndices(sim_nodes) : Count(after, <<n, n>>) = Count(sim_edges, <<n, n>>)
       /\ \A i \in 1..Len(sim_edges) :
             sim_edges[i][1] # sim_edges[i][2] => after[i] = sim_edges[i] /\ during[i] = sim_edges[i]
       /\ \A i \in 1..Len(during) : during[i] = Vacant \/ during[i][1] # during[i][2]

\* C18 witness: update_simulation has returned a graph with loops on two
\* different nodes, one of them twice, which changed slots
SelfLoopRestorationWitness ==
    /\ pc = "handle_state"
    /\ Len(sim_edges) = 3
    /\ sim_edges[1] = <<1, 1>>
    /\ sim_edges[2] = <<0, 0>>
    /\ sim_edges[3] = <<0, 0>>

\* C19: at the end of every tick the simulation graph holds one point per
\* graph node under the node's index and the same edges between the same
\* index pairs as the graph; hence add_node returns the graph's index of the
\* node it adds and sync_graph_with_simulation finds a point for every node.
MirrorInvariant ==
    pc = "handle_state" =>
        /\ Len(sim_nodes) = Len(g_nodes)
        /\ \A i \in 1..Len(sim_nodes) : sim_nodes[i] = i - 1
        /\ Len(sim_edges) = Len(g_edges)
        /\ \A a, b \in NodeIndices(g_nodes) : Count(sim_edges, <<a, b>>) = Count(g_edges, <<a, b>>)
        /\ \A l \in Links : add_node(g_nodes, sim_nodes, l).ret = Len(g_nodes)
        /\ ~sync_panics(g_nodes, sim_nodes)

\* C19 witness: a tick has ended on a graph of at least two nodes and two
\* edges, one of them a loop that update_simulation removed and restored
MirrorInvariantWitness ==
    /\ pc = "handle_state"
    /\ state = "Graph"
    /\ Len(g_nodes) >= 2
    /\ Len(g_edges) >= 2
    /\ \E i \in 1..Len(sim_edges) : sim_edges[i][1] = sim_edges[i][2]

\* C20: sync_graph_with_simulation applies exactly one direction to every
\* node: a dragged node keeps its graph location and its simulation point is
\* set to it; any other node keeps its simulation point and its graph
\* location is set to that point.
DragAuthority ==
    [][pc = "sync" =>
          /\ Len(g_layout') = Len(g_layout)
          /\ Len(sim_location') = Len(sim_location)
          /\ \A i \in 1..Len(g_layout) :
                /\ g_layout'[i].dragged = g_layout[i].dragged
                /\ IF g_layout[i].dragged
                   THEN /\ g_layout'[i].location = g_layout[i].location
                        /\ sim_location'[i] = <<g_layout[i].location[1], g_layout[i].location[2], 0>>
                   ELSE /\ sim_location'[i] = sim_location[i]
                        /\ g_layout'[i].location = <<sim_location[i][1], sim_location[i][2]>>]_vars

\* C20 witness: after a sync a dragged node has pulled its simulation point
\* to its own location, away from where the simulation had moved another,
\* undragged node, which has followed its simulation point
DragAuthorityWitness ==
    /\ pc = "simulate"
    /\ Len(g_layout) >= 2
    /\ g_layout[1].dragged
    /\ ~g_layout[2].dragged
    /\ g_layout[1].location = <<1, 0>>
    /\ sim_location[1] = <<1, 0, 0>>
    /\ sim_location[2] = <<0, 1, 1>>
    /\ g_layout[2].location = <<0, 1>>

\* C21: the handle_keys_input step that accepts a root leaves a graph of
\* exactly one node, holding the root link, and no edge, a URL index of
\* exactly one entry from the root link to that node, exactly one active
\* record, keyed to that node, with an empty channel and a running worker,
\* and the state GraphAndLoading.
RootSubmission ==
    [][(pc = "handle_keys" /\ state = "Input" /\ state' \notin {"Input", "InputError"}
        /\ halt' = "none")
          => /\ state' = "GraphAndLoading"
             /\ Len(g_nodes') = 1
             /\ g_nodes'[1].url = root_article_url
             /\ g_edges' = <<>>
             /\ DOMAIN node_by_url' = {root_article_url}
             /\ node_by_url'[root_article_url] = 0
             /\ DOMAIN active_tasks' = {0}
             /\ active_tasks'[0].chan = <<>>
             /\ ~active_tasks'[0].finished
             /\ Len(sim_nodes') = 1]_vars

\* C21 witness: a root has just been accepted
RootSubmissionWitness ==
    /\ state = "GraphAndLoading"
    /\ pc = "sync"
    /\ tasks_started = 1
    /\ Len(g_nodes) = 1
    /\ DOMAIN active_tasks = {0}
    /\ active_tasks[0].produced = <<>>

\* C22, its precondition: a root can be submitted only in Input, and there
\* no fetch is outstanding and nothing was ever loaded, so no submission
\* happens while a fetch is outstanding
SubmissionOnlyWhenIdle ==
    state \in {"Input", "InputError"} =>
        /\ DOMAIN active_tasks = {}
        /\ g_nodes = <<>>
        /\ DOMAIN node_by_url = {}
        /\ tasks_started = 0

\* a text that parses to a URL whose host contains "wikipedia.org"
HasWikiHost(t) == UrlParses(t) /\ t # NoHostText /\ is_wiki(t)

\* C23: with a root text that fails to parse, or parses but has no
\* wikipedia host, handle_keys_input never fails: pressing Enter takes the
\* Failure fork to InputError, and the graph, the URL index, the simulation
\* graph and the active records are left unchanged.
RootRejection ==
    [][(pc = "handle_keys" /\ state = "Input" /\ ~HasWikiHost(root_article_url))
          => /\ halt' = "none"
             /\ state' \in {"Input", "InputError"}
             /\ UNCHANGED <<g_nodes, g_edges, node_by_url, sim_nodes, sim_edges, active_tasks>>]_vars

\* C24: in every reachable cursor state of Graph, select_next_article and
\* select_prev_article return, having examined at most as many members as
\* the current root has, also when none of them is an Article.
FilteredTraversalTerminates ==
    (state = "Graph" /\ cursor.some /\ halt = "none")
        => /\ article_loop(next_child(cursor), g_nodes, TRUE, 1).halt # "hang"
           /\ article_loop(prev_child(cursor), g_nodes, FALSE, 1).halt # "hang"

\* C25: at most one fetch record is active, and a task is created only in
\* Input or in Graph (Navigable), with no record active, so that
\* create_new_task never replaces a record.
SingleActiveRecord ==
    [][/\ Cardinality(DOMAIN active_tasks') <= 1
       /\ tasks_started' # tasks_started
             => /\ state \in {"Input", "Graph"}
                /\ DOMAIN active_tasks = {}]_vars

\* C25, the part that holds: at most one record is active, and a task is
\* created only while none is
AtMostOneActive ==
    [][/\ Cardinality(DOMAIN active_tasks') <= 1
       /\ tasks_started' # tasks_started => DOMAIN active_tasks = {}]_vars

\* C26: outside the root submission a fetch task is created only for a
\* selected node whose link is classified Article.
ExpansionOnlyOfArticles ==
    [][(state # "Input" /\ tasks_started' # tasks_started)
          => /\ selected_node' # None
             /\ selected_node' \in DOMAIN active_tasks'
             /\ url_type(g_nodes'[selected_node' + 1].url) = "Article"]_vars

\* C27: selected_node is Some only if the cursor is Some; in Graph both are
\* Some; a selected node is a node of the graph; hence the unwraps of the
\* cursor in generate_toolbox_state and in the select operations, of
\* selected_node in draw_graph and handle_state_graph_loaded, and of the
\* selected node's weight find a value.
NoAbsentUnwrap ==
    /\ selected_node # None => cursor.some
    /\ selected_node # None => selected_node \in NodeIndices(g_nodes)
    /\ state = "Graph" => cursor.some /\ selected_node # None
    /\ (state = "GraphLoaded" /\ cursor.some) => selected_node # None
    /\ ~toolbox_panics(selected_node, cursor)

\* C27 witness: in Graph, after a navigation key moved the selection, the
\* toolbox is about to be drawn for the selected node
NoAbsentUnwrapWitness ==
    /\ state = "Graph"
    /\ pc = "draw"
    /\ cursor.some
    /\ selected_node # None
    /\ selected_node # cursor.position[1]
    /\ selected_node = cursor.position[2]
    /\ Len(cursor.roots_tree.nodes) >= 2

\* the roots the cursor c is moved to from root r by one next_root or one
\* prev_root call
RootSteps(c, r) ==
    LET at == [c EXCEPT !.position = <<r, r>>]
        n == next_root(at)
        p == prev_root(at)
    IN (IF n.panic \/ n.ret = None THEN {} ELSE {n.cursor.position[1]})
       \cup (IF p.panic \/ p.ret = None THEN {} ELSE {p.cursor.position[1]})

\* the roots the cursor is moved to from the roots of S by at most k calls
RECURSIVE RootsWithin(_, _, _)
RootsWithin(c, S, k) ==
    IF k = 0 THEN S
    ELSE RootsWithin(c, S \cup UNION {RootSteps(c, r) : r \in S}, k - 1)

\* C28: for any two registered roots some finite sequence of next_root and
\* prev_root calls moves the cursor's current root from the one to the other.
EveryRootNavigable ==
    cursor.some =>
        \A r1, r2 \in DOMAIN cursor.elements_by_root :
            r2 \in RootsWithin(cursor, {r1}, Cardinality(DOMAIN cursor.elements_by_root))

====
